---- MODULE Spec2Model ----
(***************************************************************************)
(* TeacherHub: the REST routes of server/routes.ts over the in-memory      *)
(* MemStorage, the zod insert schemas of shared/schema.ts, and the Gemini  *)
(* suggestion generator of server/services/geminiService.ts.               *)
(*                                                                         *)
(* A JavaScript object is a function from its keys to its values; a Map is *)
(* a sequence of [key, value] entries in insertion order.                  *)
(***************************************************************************)
EXTENDS Integers, Sequences, FiniteSets, TLC

VARIABLES
    users,                    \* MemStorage.users
    content,                  \* MemStorage.content
    topicSuggestions,         \* MemStorage.topicSuggestions
    userIdCounter,            \* MemStorage.userIdCounter
    contentIdCounter,         \* MemStorage.contentIdCounter
    topicSuggestionIdCounter, \* MemStorage.topicSuggestionIdCounter
    apiKeySet,                \* process.env.GOOGLE_GEMINI_API_KEY is set
    pending,                  \* requests whose handler is suspended at an await
    last,                     \* the last request answered, with its response
    createdIds,               \* history: ids returned by createContent, in order
    deletedIds,               \* history: content ids a DELETE answered 204 for
    completed                 \* history: the creates answered while others waited

vars == <<users, content, topicSuggestions, userIdCounter, contentIdCounter,
          topicSuggestionIdCounter, apiKeySet, pending, last, createdIds,
          deletedIds, completed>>

storeVars == <<users, content, topicSuggestions, userIdCounter,
               contentIdCounter, topicSuggestionIdCounter>>

-----------------------------------------------------------------------------
(* Bounds of the model *)

\* ids allocated over the content and topic-suggestion collections together
MaxRecords == 3
\* /api/ai/suggestions requests suspended at the same time
MaxPending == 1

-----------------------------------------------------------------------------
(* JavaScript objects and Maps *)

EmptyObject == [k \in {} |-> ""]

\* { ...a, ...b }
Spread(a, b) == b @@ a

\* the object without the keys outside `keys`
Pick(obj, keys) == [k \in (DOMAIN obj) \cap keys |-> obj[k]]

Omit(obj, k) == [j \in (DOMAIN obj) \ {k} |-> obj[j]]

Has(obj, k) == k \in DOMAIN obj

MapKeys(m) == {m[i].key : i \in 1..Len(m)}

MapHas(m, k) == k \in MapKeys(m)

MapIndex(m, k) == CHOOSE i \in 1..Len(m) : m[i].key = k

MapGet(m, k) == m[MapIndex(m, k)].value

\* a set that moves the entry of an existing key to the end
MapSet_MoveToEnd(m, k, v) ==
    Append(SelectSeq(m, LAMBDA e : e.key # k), [key |-> k, value |-> v])

\* Map.prototype.set: an existing key keeps its place, a new key goes last
MapSet(m, k, v) ==
    IF MapHas(m, k)
    THEN [m EXCEPT ![MapIndex(m, k)] = [key |-> k, value |-> v]]
    ELSE Append(m, [key |-> k, value |-> v])

\* Map.prototype.delete: the entries left, in order
MapDelete(m, k) == SelectSeq(m, LAMBDA e : e.key # k)

\* Array.from(map.values())
MapValues(m) == [i \in 1..Len(m) |-> m[i].value]

\* Array.prototype.slice(0, end): a negative end counts from the end
ToLength(end, len) ==
    IF end < 0 THEN (IF len + end < 0 THEN 0 ELSE len + end)
    ELSE (IF end > len THEN len ELSE end)

\* a slice that keeps the whole array
SliceFromZero_Whole(arr, end) == arr

SliceFromZero(arr, end) == SubSeq(arr, 1, ToLength(end, Len(arr)))

-----------------------------------------------------------------------------
(* shared/schema.ts *)

ContentType == {"notes", "quiz", "assignment", "paper"}

DifficultyLevel == {"easy", "medium", "hard"}

\* the columns of the content table but id
ContentRequired == {"title", "type", "subject", "grade", "difficulty",
                    "htmlContent", "createdById"}

ContentOptional == {"tags", "isPublic"}

ContentKeys == ContentRequired \cup ContentOptional

\* a schema that takes any string for difficulty
ContentFieldOk_AnyDifficulty(k, v) ==
    CASE k = "type" -> v \in ContentType
      [] k = "createdById" -> v \in Int
      [] k = "isPublic" -> v \in BOOLEAN
      [] k = "tags" -> \A i \in DOMAIN v : v[i] \in STRING
      [] OTHER -> v \in STRING

\* the validator of one key of insertContentSchema
ContentFieldOk(k, v) ==
    CASE k = "type" -> v \in ContentType
      [] k = "difficulty" -> v \in DifficultyLevel
      [] k = "createdById" -> v \in Int
      [] k = "isPublic" -> v \in BOOLEAN
      [] k = "tags" -> \A i \in DOMAIN v : v[i] \in STRING
      [] OTHER -> v \in STRING

\* a schema that passes unknown keys through
StripUnknown_Passthrough(body, keys) == body

\* the keys of the body the schema knows; zod drops the others
StripUnknown(body, keys) == Pick(body, keys)

\* insertContentSchema.parse(body): ok, and the parsed data
insertContentSchema(body) ==
    [ok |-> /\ ContentRequired \subseteq DOMAIN body
            /\ \A k \in (DOMAIN body) \cap ContentKeys : ContentFieldOk(k, body[k]),
     data |-> StripUnknown(body, ContentKeys)]

\* a partial schema that lost the enumerations
insertContentSchemaPartial_NoEnums(body) ==
    [ok |-> TRUE, data |-> StripUnknown(body, ContentKeys)]

\* insertContentSchema.partial().parse(body): every key optional
insertContentSchemaPartial(body) ==
    [ok |-> \A k \in (DOMAIN body) \cap ContentKeys : ContentFieldOk(k, body[k]),
     data |-> StripUnknown(body, ContentKeys)]

\* the columns of the topic_suggestion table but id
TopicRequired == {"title", "description", "subject", "grade"}

TopicOptional == {"category", "difficultyLevels"}

TopicKeys == TopicRequired \cup TopicOptional

TopicFieldOk(k, v) ==
    CASE k = "difficultyLevels" -> \A i \in DOMAIN v : v[i] \in STRING
      [] OTHER -> v \in STRING

\* insertTopicSuggestionSchema.parse(body)
insertTopicSuggestionSchema(body) ==
    [ok |-> /\ TopicRequired \subseteq DOMAIN body
            /\ \A k \in (DOMAIN body) \cap TopicKeys : TopicFieldOk(k, body[k]),
     data |-> StripUnknown(body, TopicKeys)]

-----------------------------------------------------------------------------
(* MemStorage: content operations *)

\* ids taken from the size of the collection
createContent_SizeId(m, counter, insertContent) ==
    LET id == Len(m) + 1
        newContent == Spread(insertContent, "id" :> id)
    IN [content |-> MapSet(m, id, newContent),
        counter |-> counter + 1,
        ret |-> newContent]

\* a create that leaves the counter where it was
createContent_KeepsCounter(m, counter, insertContent) ==
    LET id == counter
        newContent == Spread(insertContent, "id" :> id)
    IN [content |-> MapSet(m, id, newContent),
        counter |-> counter,
        ret |-> newContent]

\* a create that fills in the column default of isPublic
createContent_DefaultsPublic(m, counter, insertContent) ==
    LET id == counter
        newContent == Spread(Spread("isPublic" :> FALSE, insertContent), "id" :> id)
    IN [content |-> MapSet(m, id, newContent),
        counter |-> counter + 1,
        ret |-> newContent]

createContent(m, counter, insertContent) ==
    LET id == counter
        newContent == Spread(insertContent, "id" :> id)
    IN [content |-> MapSet(m, id, newContent),
        counter |-> counter + 1,
        ret |-> newContent]

\* <<>> stands for undefined
getContent(m, id) == IF MapHas(m, id) THEN <<MapGet(m, id)>> ELSE <<>>

getAllContent(m) == MapValues(m)

getContentByUser(m, userId) ==
    SelectSeq(MapValues(m), LAMBDA c : c.createdById = userId)

\* an update that inserts under a missing id
updateContent_Upsert(m, id, contentData) ==
    LET existing == IF MapHas(m, id) THEN MapGet(m, id) ELSE EmptyObject
        updatedContent == Spread(existing, contentData)
    IN [content |-> MapSet(m, id, updatedContent),
        ret |-> IF MapHas(m, id) THEN <<updatedContent>> ELSE <<>>]

\* an update that stores the body in place of the record
updateContent_Replace(m, id, contentData) ==
    IF ~MapHas(m, id)
    THEN [content |-> m, ret |-> <<>>]
    ELSE LET updatedContent == Spread("id" :> id, contentData)
         IN [content |-> MapSet(m, id, updatedContent),
             ret |-> <<updatedContent>>]

updateContent(m, id, contentData) ==
    IF ~MapHas(m, id)
    THEN [content |-> m, ret |-> <<>>]
    ELSE LET updatedContent == Spread(MapGet(m, id), contentData)
         IN [content |-> MapSet(m, id, updatedContent),
             ret |-> <<updatedContent>>]

\* a delete that always reports success
deleteContent_AlwaysTrue(m, id) ==
    [content |-> MapDelete(m, id), ret |-> TRUE]

deleteContent(m, id) ==
    [content |-> MapDelete(m, id), ret |-> MapHas(m, id)]

-----------------------------------------------------------------------------
(* MemStorage: topic suggestion operations *)

\* a create that returns the stored record equal to the suggestion, when there
\* is one
createTopicSuggestion_Dedup(m, counter, suggestion) ==
    LET same == {i \in 1..Len(m) : Omit(m[i].value, "id") = suggestion}
    IN IF same # {}
       THEN [topicSuggestions |-> m, counter |-> counter,
             ret |-> m[CHOOSE i \in same : TRUE].value]
       ELSE [topicSuggestions |-> MapSet(m, counter, Spread(suggestion, "id" :> counter)),
             counter |-> counter + 1,
             ret |-> Spread(suggestion, "id" :> counter)]

\* a create that takes the id from the size of the collection
createTopicSuggestion_SizeId(m, counter, suggestion) ==
    LET id == Len(m) + 1
        newSuggestion == Spread(suggestion, "id" :> id)
    IN [topicSuggestions |-> MapSet(m, id, newSuggestion),
        counter |-> counter + 1,
        ret |-> newSuggestion]

createTopicSuggestion(m, counter, suggestion) ==
    LET id == counter
        newSuggestion == Spread(suggestion, "id" :> id)
    IN [topicSuggestions |-> MapSet(m, id, newSuggestion),
        counter |-> counter + 1,
        ret |-> newSuggestion]

\* a batch that leaves one id free after each record
createTopicSuggestions_Gaps(m, counter, suggestions) ==
    LET saved == [i \in 1..Len(suggestions) |->
                    Spread(suggestions[i], "id" :> counter + 2 * (i - 1))]
    IN [topicSuggestions |->
            m \o [i \in 1..Len(saved) |-> [key |-> saved[i].id, value |-> saved[i]]],
        counter |-> counter + 2 * Len(suggestions),
        ret |-> saved]

\* suggestions.map(s => storage.createTopicSuggestion(s)): the calls run one
\* after the other, each to its end, before the route goes on
RECURSIVE createTopicSuggestions(_, _, _)
createTopicSuggestions(m, counter, suggestions) ==
    IF suggestions = <<>>
    THEN [topicSuggestions |-> m, counter |-> counter, ret |-> <<>>]
    ELSE LET first == createTopicSuggestion(m, counter, Head(suggestions))
             rest == createTopicSuggestions(first.topicSuggestions, first.counter,
                                            Tail(suggestions))
         IN [topicSuggestions |-> rest.topicSuggestions,
             counter |-> rest.counter,
             ret |-> <<first.ret>> \o rest.ret]

\* the limit of getTopicSuggestions when none is given
DefaultLimit == 10

\* a filter on the subject alone
getTopicSuggestions_SubjectOnly(m, subject, grade, limit) ==
    SliceFromZero(SelectSeq(MapValues(m), LAMBDA s : s.subject = subject), limit)

getTopicSuggestions(m, subject, grade, limit) ==
    SliceFromZero(SelectSeq(MapValues(m),
                            LAMBDA s : s.subject = subject /\ s.grade = grade),
                  limit)

deleteTopicSuggestion(m, id) ==
    [topicSuggestions |-> MapDelete(m, id), ret |-> MapHas(m, id)]

-----------------------------------------------------------------------------
(* server/services/geminiService.ts *)

\* The model's text is a sequence of tokens: a code fence (``` or ```json),
\* white space, prose, or the text of one JSON value.
Fence == [t |-> "fence"]
Space == [t |-> "space"]
Prose == [t |-> "prose"]
JsonText(v) == [t |-> "json", v |-> v]

\* JSON values: null, an object with its fields, an array with its items
JsonNull == [kind |-> "null"]
JsonObject(fields) == [kind |-> "object", fields |-> fields]
JsonArray(items) == [kind |-> "array", items |-> items]

\* text.replace(/```json|```/g, '')
RemoveFences(text) == SelectSeq(text, LAMBDA tok : tok.t # "fence")

\* String.prototype.trim
RECURSIVE TrimStart(_)
TrimStart(text) ==
    IF text # <<>> /\ Head(text).t = "space" THEN TrimStart(Tail(text)) ELSE text

RECURSIVE TrimEnd(_)
TrimEnd(text) ==
    IF text # <<>> /\ text[Len(text)].t = "space"
    THEN TrimEnd(SubSeq(text, 1, Len(text) - 1))
    ELSE text

Trim(text) == TrimEnd(TrimStart(text))

\* JSON.parse: one JSON value, white space around it allowed, nothing else
JsonParse(text) ==
    LET tokens == SelectSeq(text, LAMBDA tok : tok.t # "space")
    IN IF Len(tokens) = 1 /\ tokens[1].t = "json"
       THEN [ok |-> TRUE, value |-> tokens[1].v]
       ELSE [ok |-> FALSE, value |-> JsonNull]

\* a || b on a string key of an object: undefined and "" are falsy
OrElse(obj, k, dflt) == IF Has(obj, k) /\ obj[k] # "" THEN obj[k] ELSE dflt

\* a || b on an array key of an object: only undefined is falsy
ArrayOrElse(obj, k, dflt) == IF Has(obj, k) THEN obj[k] ELSE dflt

\* a generator that keeps the subject and grade of the answer
FormatSuggestion_TrustEcho(item, subject, grade) ==
    Pick(item.fields, {"title", "description", "subject", "grade"})
    @@ [subject |-> subject,
        grade |-> grade,
        category |-> OrElse(item.fields, "category", subject),
        difficultyLevels |-> ArrayOrElse(item.fields, "difficultyLevels", <<"medium">>)]

\* one item of the answer, shaped; a key whose value is undefined is left out
FormatSuggestion(item, subject, grade) ==
    Pick(item.fields, {"title", "description"})
    @@ [subject |-> subject,
        grade |-> grade,
        category |-> OrElse(item.fields, "category", subject),
        difficultyLevels |-> ArrayOrElse(item.fields, "difficultyLevels", <<"medium">>)]

\* the inner try block, on a value that JSON.parse returned: slice and map
\* throw a TypeError on anything but an array of objects
ShapeSuggestions(value, subject, grade, count) ==
    IF value.kind # "array"
    THEN [ok |-> FALSE, ret |-> <<>>]
    ELSE LET taken == SliceFromZero(value.items, count)
         IN IF \E i \in 1..Len(taken) : taken[i].kind # "object"
            THEN [ok |-> FALSE, ret |-> <<>>]
            ELSE [ok |-> TRUE,
                  ret |-> [i \in 1..Len(taken) |->
                              FormatSuggestion(taken[i], subject, grade)]]

\* An Error object: its message, and the values attached to it besides
NoError == [message |-> "", carries |-> <<>>]

\* the rejection of model.generateContent, rethrown by the outer catch
ApiError == [message |-> "generateContent failed", carries |-> <<>>]

\* API_KEY.substring(0, 5) on an undefined API_KEY
KeyTypeError ==
    [message |-> "Cannot read properties of undefined", carries |-> <<>>]

\* a parse error that takes the raw text along
ParseError_WithRawText(text) ==
    [message |-> "Failed to parse AI-generated suggestions", carries |-> <<text>>]

\* new Error("Failed to parse AI-generated suggestions")
ParseError(text) ==
    [message |-> "Failed to parse AI-generated suggestions", carries |-> <<>>]

\* the function returns ret
Returns(ret) == [ok |-> TRUE, ret |-> ret, error |-> NoError, logged |-> <<>>]

\* the function throws error, having written logged as "Raw response:"
Throws(error, logged) ==
    [ok |-> FALSE, ret |-> <<>>, error |-> error, logged |-> logged]

\* a generator that answers a text it cannot parse with no suggestions
generateTopicSuggestions_EmptyOnFailure(input, outcome) ==
    IF outcome.kind = "error"
    THEN Throws(ApiError, <<>>)
    ELSE LET parsed == JsonParse(Trim(RemoveFences(outcome.text)))
             shaped == ShapeSuggestions(parsed.value, input.subject, input.grade,
                                        input.count)
         IN IF ~parsed.ok
            THEN Returns(<<>>)
            ELSE IF shaped.ok
            THEN Returns(shaped.ret)
            ELSE Throws(ParseError(outcome.text), outcome.text)

\* generateTopicSuggestions once model.generateContent has settled: ok is
\* FALSE when the function throws
generateTopicSuggestions(input, outcome) ==
    IF outcome.kind = "error"
    THEN Throws(ApiError, <<>>)
    ELSE LET parsed == JsonParse(Trim(RemoveFences(outcome.text)))
             shaped == ShapeSuggestions(parsed.value, input.subject, input.grade,
                                        input.count)
         IN IF parsed.ok /\ shaped.ok
            THEN Returns(shaped.ret)
            ELSE Throws(ParseError(outcome.text), outcome.text)

-----------------------------------------------------------------------------
(* Requests *)

\* ids allocated so far over both collections
Allocated == (contentIdCounter - 1) + (topicSuggestionIdCounter - 1)

\* the :id parameters tried: every id that can exist, and one that cannot
Ids == 1..(MaxRecords + 1)

BasePayload ==
    [title |-> "Algebra", type |-> "notes", subject |-> "Mathematics",
     grade |-> "9th Grade", difficulty |-> "easy",
     htmlContent |-> "<p>x</p>", createdById |-> 1]

FullPayload ==
    [title |-> "Cells", type |-> "quiz", subject |-> "Science",
     grade |-> "10th Grade", difficulty |-> "hard",
     htmlContent |-> "<h1>y</h1>", createdById |-> 2,
     tags |-> <<"bio">>, isPublic |-> TRUE]

\* bodies of POST /api/content
PostContentBodies ==
    {BasePayload, FullPayload,
     Spread(BasePayload, "id" :> 7),
     Spread(BasePayload, "author" :> "teacher"),
     Spread(BasePayload, "title" :> "Al"),
     Spread(BasePayload, "type" :> "essay"),
     Spread(BasePayload, "difficulty" :> "extreme"),
     EmptyObject}
    \cup {Omit(BasePayload, k) : k \in ContentRequired}

\* bodies of PATCH /api/content/:id
PatchContentBodies ==
    {EmptyObject,
     ("title" :> "Geometry") @@ ("id" :> 7),
     "type" :> "essay",
     "difficulty" :> "extreme"}

\* queries of GET /api/content: a query value is truthy unless absent
ListContentQueries == {EmptyObject} \cup {"userId" :> n : n \in 0..2}

\* a response that reports a rejected body as 422
Response_Unprocessable(op, id, body, status, out) ==
    [op |-> op, id |-> id, body |-> body,
     status |-> IF status = 400 THEN 422 ELSE status, out |-> out]

\* op, :id (0 when the route has none), body or query, status, records sent
Response(op, id, body, status, out) ==
    [op |-> op, id |-> id, body |-> body, status |-> status, out |-> out]

BaseSuggestion ==
    [title |-> "Fractions", description |-> "d1", subject |-> "Mathematics",
     grade |-> "9th Grade"]

FullSuggestion ==
    [title |-> "Ratios", description |-> "d2", subject |-> "Mathematics",
     grade |-> "10th Grade", category |-> "Algebra",
     difficultyLevels |-> <<"easy", "medium">>]

\* bodies of POST /api/suggestions
PostSuggestionBodies ==
    {BaseSuggestion, FullSuggestion, Spread(BaseSuggestion, "id" :> 7)}
    \cup {Omit(BaseSuggestion, k) : k \in TopicRequired}

\* queries of GET /api/suggestions; limit is the number its text reads as
SuggestionQueries ==
    {[subject |-> "Mathematics", grade |-> "9th Grade"],
     [subject |-> "Mathematics", grade |-> "10th Grade"],
     [subject |-> "Science", grade |-> "9th Grade", limit |-> 2],
     [subject |-> "Mathematics"],
     [subject |-> "", grade |-> "9th Grade"]}
    \cup {[subject |-> "Mathematics", grade |-> "9th Grade", limit |-> n] :
             n \in (0 - 1)..2}

\* bodies of POST /api/ai/suggestions
AiSuggestionBodies ==
    {[subject |-> "Mathematics", grade |-> "9th Grade"],
     [subject |-> "Mathematics", grade |-> "9th Grade", count |-> 1],
     [subject |-> "Mathematics", grade |-> "9th Grade", count |-> 3],
     [grade |-> "9th Grade"],
     [subject |-> "Mathematics", grade |-> ""]}

\* an item that echoes another subject and grade than the ones asked for
ItemEcho ==
    JsonObject([title |-> "Limits", description |-> "d3", subject |-> "History",
                grade |-> "Kindergarten", category |-> "Calculus",
                difficultyLevels |-> <<"hard">>])

\* an item with neither category nor difficultyLevels
ItemBare == JsonObject([title |-> "Sets", description |-> "d4"])

\* an item without a title
ItemUntitled == JsonObject([description |-> "d6"])

\* what model.generateContent can settle with: a rejection, or a text
CallFails == [kind |-> "error", text |-> <<>>]
\* the request was answered before model.generateContent was called
NoCall == [kind |-> "none", text |-> <<>>]
Answers(text) == [kind |-> "text", text |-> text]

ModelOutcomes ==
    {CallFails,
     Answers(<<Prose>>),
     Answers(<<Prose, JsonText(JsonArray(<<ItemEcho, ItemBare>>))>>),
     Answers(<<Fence, Space, JsonText(JsonArray(<<ItemEcho, ItemBare>>)), Space, Fence>>),
     Answers(<<JsonText(JsonArray(<<ItemBare, ItemEcho, ItemBare, ItemEcho>>))>>),
     Answers(<<JsonText(JsonArray(<<ItemEcho, JsonNull>>))>>),
     Answers(<<JsonText(JsonObject(EmptyObject))>>)}

\* bodies of POST /api/ai/content
AiContentBodies ==
    {[prompt |-> "Explain sets"],
     [prompt |-> "Explain sets", subject |-> "Mathematics", grade |-> "9th Grade"],
     [subject |-> "Mathematics"],
     [prompt |-> ""]}

\* a text with one of the tags <h1>, <h2>, <p>, <ul>, and an empty line
Html == [t |-> "html"]
Break == [t |-> "break"]

\* what model.generateContent can settle with in POST /api/ai/content
ContentOutcomes ==
    {CallFails,
     Answers(<<Html>>),
     Answers(<<Prose>>),
     Answers(<<Prose, Break, Prose, Space>>)}

\* a request whose handler awaits model.generateContent, with the number of
\* calls to the model it has issued
AiPending(route, body) == [route |-> route, body |-> body, calls |-> 1]

\* what a handler of an AI route did besides answering: the calls to the model
\* it issued, the error its catch block caught, the raw text it logged
Did(calls, thrown, logged) ==
    [calls |-> calls, thrown |-> thrown, logged |-> logged]

\* the response of an AI route: status, error is the error key of the body and
\* out the rest of the body; with it what the model settled with and what the
\* handler did
AiResponse(op, body, outcome, did, status, error, out) ==
    [op |-> op, id |-> 0, body |-> body, status |-> status, error |-> error,
     out |-> out, outcome |-> outcome, calls |-> did.calls,
     thrown |-> did.thrown, logged |-> did.logged]

\* a test that takes the empty string for a value
Truthy_Present(obj, k) == Has(obj, k)

\* a value of a body that is there and not the empty string
Truthy(obj, k) == Has(obj, k) /\ obj[k] # ""

RemoveAt(seq, i) == SubSeq(seq, 1, i - 1) \o SubSeq(seq, i + 1, Len(seq))

-----------------------------------------------------------------------------
(* server/routes.ts: content routes *)

PostContent(body) ==
    LET validated == insertContentSchema(body)
        created == createContent(content, contentIdCounter, validated.data)
    IN IF validated.ok
       THEN /\ Allocated < MaxRecords
            /\ content' = created.content
            /\ contentIdCounter' = created.counter
            /\ createdIds' = Append(createdIds, created.ret.id)
            /\ last' = Response("POST /api/content", 0, body, 201, <<created.ret>>)
            /\ UNCHANGED <<users, userIdCounter, topicSuggestions,
                           topicSuggestionIdCounter, apiKeySet, pending, deletedIds, completed>>
       ELSE /\ last' = Response("POST /api/content", 0, body, 400, <<>>)
            /\ UNCHANGED <<storeVars, apiKeySet, pending, createdIds, deletedIds, completed>>

\* userId is Number(query.userId) when the query has it, and is then tested
\* once more for truthiness: 0 lists everything
ListContent(query) ==
    LET userId == IF Has(query, "userId") THEN query.userId ELSE 0
        contentList == IF userId # 0
                       THEN getContentByUser(content, userId)
                       ELSE getAllContent(content)
    IN /\ last' = Response("GET /api/content", 0, query, 200, contentList)
       /\ UNCHANGED <<storeVars, apiKeySet, pending, createdIds, deletedIds, completed>>

GetContentById(id) ==
    LET found == getContent(content, id)
    IN /\ last' = Response("GET /api/content/:id", id, EmptyObject,
                           IF found = <<>> THEN 404 ELSE 200, found)
       /\ UNCHANGED <<storeVars, apiKeySet, pending, createdIds, deletedIds, completed>>

\* a PATCH that looks the id up before it validates the body
PatchContent_LookupFirst(id, body) ==
    LET validated == insertContentSchemaPartial(body)
        updated == updateContent(content, id, validated.data)
    IN IF ~MapHas(content, id)
       THEN /\ last' = Response("PATCH /api/content/:id", id, body, 404, <<>>)
            /\ UNCHANGED <<storeVars, apiKeySet, pending, createdIds, deletedIds,
                           completed>>
       ELSE IF validated.ok
       THEN /\ content' = updated.content
            /\ last' = Response("PATCH /api/content/:id", id, body, 200, updated.ret)
            /\ UNCHANGED <<users, userIdCounter, contentIdCounter, topicSuggestions,
                           topicSuggestionIdCounter, apiKeySet, pending, createdIds,
                           deletedIds, completed>>
       ELSE /\ last' = Response("PATCH /api/content/:id", id, body, 400, <<>>)
            /\ UNCHANGED <<storeVars, apiKeySet, pending, createdIds, deletedIds,
                           completed>>

PatchContent(id, body) ==
    LET validated == insertContentSchemaPartial(body)
        updated == updateContent(content, id, validated.data)
    IN IF validated.ok
       THEN /\ content' = updated.content
            /\ last' = Response("PATCH /api/content/:id", id, body,
                                IF updated.ret = <<>> THEN 404 ELSE 200, updated.ret)
            /\ UNCHANGED <<users, userIdCounter, contentIdCounter, topicSuggestions,
                           topicSuggestionIdCounter, apiKeySet, pending, createdIds,
                           deletedIds, completed>>
       ELSE /\ last' = Response("PATCH /api/content/:id", id, body, 400, <<>>)
            /\ UNCHANGED <<storeVars, apiKeySet, pending, createdIds, deletedIds, completed>>

DeleteContent(id) ==
    LET deleted == deleteContent(content, id)
    IN /\ content' = deleted.content
       /\ last' = Response("DELETE /api/content/:id", id, EmptyObject,
                           IF deleted.ret THEN 204 ELSE 404, <<>>)
       /\ deletedIds' = IF deleted.ret THEN deletedIds \cup {id} ELSE deletedIds
       /\ UNCHANGED <<users, userIdCounter, contentIdCounter, topicSuggestions,
                      topicSuggestionIdCounter, apiKeySet, pending, createdIds,
                      completed>>

-----------------------------------------------------------------------------
(* server/routes.ts: topic suggestion routes *)

PostSuggestion(body) ==
    LET validated == insertTopicSuggestionSchema(body)
        created == createTopicSuggestion(topicSuggestions, topicSuggestionIdCounter,
                                         validated.data)
    IN IF validated.ok
       THEN /\ Allocated < MaxRecords
            /\ topicSuggestions' = created.topicSuggestions
            /\ topicSuggestionIdCounter' = created.counter
            /\ last' = Response("POST /api/suggestions", 0, body, 201, <<created.ret>>)
            /\ UNCHANGED <<users, userIdCounter, content, contentIdCounter,
                           apiKeySet, pending, createdIds, deletedIds, completed>>
       ELSE /\ last' = Response("POST /api/suggestions", 0, body, 400, <<>>)
            /\ UNCHANGED <<storeVars, apiKeySet, pending, createdIds, deletedIds, completed>>

\* limit is Number(query.limit) when the query has it, else the default of
\* getTopicSuggestions
ListSuggestions(query) ==
    LET limit == IF Has(query, "limit") THEN query.limit ELSE DefaultLimit
    IN /\ IF ~Truthy(query, "subject") \/ ~Truthy(query, "grade")
          THEN last' = Response("GET /api/suggestions", 0, query, 400, <<>>)
          ELSE last' = Response("GET /api/suggestions", 0, query, 200,
                                getTopicSuggestions(topicSuggestions, query.subject,
                                                    query.grade, limit))
       /\ UNCHANGED <<storeVars, apiKeySet, pending, createdIds, deletedIds, completed>>

\* a DELETE /api/suggestions/:id that takes the id from both collections
DeleteSuggestion_BothStores(id) ==
    LET deleted == deleteTopicSuggestion(topicSuggestions, id)
    IN /\ topicSuggestions' = deleted.topicSuggestions
       /\ content' = deleteContent(content, id).content
       /\ last' = Response("DELETE /api/suggestions/:id", id, EmptyObject,
                           IF deleted.ret THEN 204 ELSE 404, <<>>)
       /\ UNCHANGED <<users, userIdCounter, contentIdCounter,
                      topicSuggestionIdCounter, apiKeySet, pending, createdIds,
                      deletedIds, completed>>

DeleteSuggestion(id) ==
    LET deleted == deleteTopicSuggestion(topicSuggestions, id)
    IN /\ topicSuggestions' = deleted.topicSuggestions
       /\ last' = Response("DELETE /api/suggestions/:id", id, EmptyObject,
                           IF deleted.ret THEN 204 ELSE 404, <<>>)
       /\ UNCHANGED <<users, userIdCounter, content, contentIdCounter,
                      topicSuggestionIdCounter, apiKeySet, pending, createdIds,
                      deletedIds, completed>>

\* a key that is never missed
ApiKeyMissing_Never == FALSE

\* !API_KEY: GOOGLE_GEMINI_API_KEY is not in the environment
ApiKeyMissing == ~apiKeySet

\* a handler that calls the model once more after a failure
CallAgain_AfterFailure(failed, calls) == failed /\ calls < 2

\* whether a handler calls model.generateContent again once a call has
\* settled: every catch block answers or rethrows, none calls again
CallAgain(failed, calls) == FALSE

\* POST /api/ai/suggestions up to the await of model.generateContent: without
\* the key generateTopicSuggestions throws before it calls the model
AiSuggestionsStart(body) ==
    IF ~Truthy(body, "subject") \/ ~Truthy(body, "grade")
    THEN /\ last' = AiResponse("POST /api/ai/suggestions", body, NoCall,
                               Did(0, NoError, <<>>), 400,
                               "Subject and grade are required", <<>>)
         /\ UNCHANGED <<storeVars, apiKeySet, pending, createdIds, deletedIds, completed>>
    ELSE IF ApiKeyMissing
    THEN /\ last' = AiResponse("POST /api/ai/suggestions", body, NoCall,
                               Did(0, KeyTypeError, <<>>), 500,
                               "Failed to generate AI suggestions with Gemini", <<>>)
         /\ UNCHANGED <<storeVars, apiKeySet, pending, createdIds, deletedIds, completed>>
    ELSE /\ Len(pending) < MaxPending
         /\ pending' = Append(pending, AiPending("POST /api/ai/suggestions", body))
         /\ UNCHANGED <<storeVars, apiKeySet, last, createdIds, deletedIds, completed>>

\* POST /api/ai/suggestions from the moment model.generateContent settles
AiSuggestionsFinish(i, outcome) ==
    LET body == pending[i].body
        input == [subject |-> body.subject, grade |-> body.grade,
                  count |-> IF Has(body, "count") THEN body.count ELSE 3]
        generated == generateTopicSuggestions(input, outcome)
        saved == createTopicSuggestions(topicSuggestions, topicSuggestionIdCounter,
                                        generated.ret)
        did == Did(pending[i].calls, generated.error, generated.logged)
    IN /\ pending[i].route = "POST /api/ai/suggestions"
       /\ IF CallAgain(~generated.ok, pending[i].calls)
          THEN /\ pending' = [pending EXCEPT ![i].calls = @ + 1]
               /\ UNCHANGED <<topicSuggestions, topicSuggestionIdCounter, last>>
          ELSE /\ pending' = RemoveAt(pending, i)
               /\ IF generated.ok
                  THEN /\ Allocated + Len(generated.ret) <= MaxRecords
                       /\ topicSuggestions' = saved.topicSuggestions
                       /\ topicSuggestionIdCounter' = saved.counter
                       /\ last' = AiResponse("POST /api/ai/suggestions", body,
                                             outcome, did, 200, "", saved.ret)
                  ELSE /\ last' = AiResponse("POST /api/ai/suggestions", body,
                                             outcome, did, 500,
                                             "Failed to generate AI suggestions with Gemini",
                                             <<>>)
                       /\ UNCHANGED <<topicSuggestions, topicSuggestionIdCounter>>
       /\ UNCHANGED <<users, userIdCounter, content, contentIdCounter, apiKeySet,
                      createdIds, deletedIds, completed>>

-----------------------------------------------------------------------------
(* server/routes.ts: AI content route *)

\* formattedContent.split('\n\n')
RECURSIVE SplitParagraphs(_)
SplitParagraphs(text) ==
    IF \A i \in 1..Len(text) : text[i].t # "break"
    THEN <<text>>
    ELSE LET i == CHOOSE j \in 1..Len(text) :
                      /\ text[j].t = "break"
                      /\ \A k \in 1..(j - 1) : text[k].t # "break"
         IN <<SubSeq(text, 1, i - 1)>>
            \o SplitParagraphs(SubSeq(text, i + 1, Len(text)))

\* a text without any of the four tags gets the prompt as its heading and
\* each of its paragraphs in <p>
FormatContent(prompt, text) ==
    IF \E i \in 1..Len(text) : text[i].t = "html"
    THEN text
    ELSE LET paras == SplitParagraphs(text)
         IN <<[t |-> "h2", v |-> prompt]>>
            \o [i \in 1..Len(paras) |-> [t |-> "p", v |-> paras[i]]]

\* POST /api/ai/content up to the await of model.generateContent
AiContentStart(body) ==
    IF ~Truthy(body, "prompt")
    THEN /\ last' = AiResponse("POST /api/ai/content", body, NoCall,
                               Did(0, NoError, <<>>), 400, "Prompt is required", <<>>)
         /\ UNCHANGED <<storeVars, apiKeySet, pending, createdIds, deletedIds, completed>>
    ELSE IF ApiKeyMissing
    THEN /\ last' = AiResponse("POST /api/ai/content", body, NoCall,
                               Did(0, NoError, <<>>), 500,
                               "AI API key is not configured", <<>>)
         /\ UNCHANGED <<storeVars, apiKeySet, pending, createdIds, deletedIds, completed>>
    ELSE /\ Len(pending) < MaxPending
         /\ pending' = Append(pending, AiPending("POST /api/ai/content", body))
         /\ UNCHANGED <<storeVars, apiKeySet, last, createdIds, deletedIds, completed>>

\* POST /api/ai/content from the moment model.generateContent settles
AiContentFinish(i, outcome) ==
    LET body == pending[i].body
        failed == outcome.kind = "error"
    IN /\ pending[i].route = "POST /api/ai/content"
       /\ IF CallAgain(failed, pending[i].calls)
          THEN /\ pending' = [pending EXCEPT ![i].calls = @ + 1]
               /\ UNCHANGED last
          ELSE /\ pending' = RemoveAt(pending, i)
               /\ last' = IF failed
                          THEN AiResponse("POST /api/ai/content", body, outcome,
                                          Did(pending[i].calls, ApiError, <<>>), 500,
                                          "Failed to generate AI content", <<>>)
                          ELSE AiResponse("POST /api/ai/content", body, outcome,
                                          Did(pending[i].calls, NoError, <<>>), 200, "",
                                          <<[content |->
                                               FormatContent(body.prompt, outcome.text)]>>)
       /\ UNCHANGED <<storeVars, apiKeySet, createdIds, deletedIds, completed>>

-----------------------------------------------------------------------------
(* server/routes.ts: creates of several clients at once *)

\* A handler runs without interruption up to its await. In the two create
\* routes that is past the call of the store: the record is stored when the
\* handler is suspended, and the client has its answer only later, after the
\* handlers of other clients have run.

\* the records of a route whose creates were answered
CompletedOf(route) ==
    LET done == SelectSeq(completed, LAMBDA c : c.route = route)
    IN {done[i].ret : i \in 1..Len(done)}

\* a create suspended at its await: the record the store returned, and the
\* ids of the creates that were answered before the handler started
InFlight(route, body, ret) ==
    [route |-> route, body |-> body, ret |-> ret,
     after |-> {c.id : c \in CompletedOf(route)}]

\* POST /api/content up to the await of storage.createContent
PostContentBegin(body) ==
    LET validated == insertContentSchema(body)
        created == createContent(content, contentIdCounter, validated.data)
    IN IF validated.ok
       THEN /\ Allocated < MaxRecords
            /\ content' = created.content
            /\ contentIdCounter' = created.counter
            /\ createdIds' = Append(createdIds, created.ret.id)
            /\ pending' = Append(pending,
                                 InFlight("POST /api/content", body, created.ret))
            /\ UNCHANGED <<users, userIdCounter, topicSuggestions,
                           topicSuggestionIdCounter, apiKeySet, last, deletedIds,
                           completed>>
       ELSE /\ last' = Response("POST /api/content", 0, body, 400, <<>>)
            /\ UNCHANGED <<storeVars, apiKeySet, pending, createdIds, deletedIds,
                           completed>>

\* POST /api/suggestions up to the await of storage.createTopicSuggestion
PostSuggestionBegin(body) ==
    LET validated == insertTopicSuggestionSchema(body)
        created == createTopicSuggestion(topicSuggestions, topicSuggestionIdCounter,
                                         validated.data)
    IN IF validated.ok
       THEN /\ Allocated < MaxRecords
            /\ topicSuggestions' = created.topicSuggestions
            /\ topicSuggestionIdCounter' = created.counter
            /\ pending' = Append(pending,
                                 InFlight("POST /api/suggestions", body, created.ret))
            /\ UNCHANGED <<users, userIdCounter, content, contentIdCounter,
                           apiKeySet, last, createdIds, deletedIds, completed>>
       ELSE /\ last' = Response("POST /api/suggestions", 0, body, 400, <<>>)
            /\ UNCHANGED <<storeVars, apiKeySet, pending, createdIds, deletedIds,
                           completed>>

\* a create route after its await: res.status(201).json(...)
CreateEnd(i) ==
    /\ pending[i].route \in {"POST /api/content", "POST /api/suggestions"}
    /\ pending' = RemoveAt(pending, i)
    /\ completed' = Append(completed, [route |-> pending[i].route,
                                       ret |-> pending[i].ret])
    /\ last' = Response(pending[i].route, 0, pending[i].body, 201,
                        <<pending[i].ret>>)
    /\ UNCHANGED <<storeVars, apiKeySet, createdIds, deletedIds>>

-----------------------------------------------------------------------------
(* generateTopicSuggestions on its own *)

\* the counts a caller can ask for: Number(count) of any body
GeneratorCounts == (0 - 1)..5

GeneratorInputs ==
    {[subject |-> sg[1], grade |-> sg[2], count |-> n] :
        sg \in {<<"Mathematics", "9th Grade">>, <<"History", "Kindergarten">>},
        n \in GeneratorCounts}

\* an item whose category is the empty string and whose difficultyLevels is
\* the empty array
ItemEmpty ==
    JsonObject([title |-> "Graphs", description |-> "d5", category |-> "",
                difficultyLevels |-> <<>>])

GeneratorOutcomes ==
    ModelOutcomes
    \cup {Answers(<<JsonText(JsonArray(<<>>))>>),
          Answers(<<JsonText(JsonArray(<<ItemEmpty, ItemBare, ItemEcho>>))>>),
          Answers(<<Space, JsonText(JsonArray(<<ItemBare>>)), Space>>)}

\* one call of generateTopicSuggestions, from its start to its return or throw
Generate(input, outcome) ==
    LET generated == generateTopicSuggestions(input, outcome)
    IN /\ ~ApiKeyMissing
       /\ last' = [op |-> "generateTopicSuggestions", id |-> 0, body |-> input,
                   outcome |-> outcome, ok |-> generated.ok, out |-> generated.ret,
                   thrown |-> generated.error, logged |-> generated.logged]
       /\ UNCHANGED <<storeVars, apiKeySet, pending, createdIds, deletedIds, completed>>

-----------------------------------------------------------------------------

Init ==
    /\ users = <<[key |-> 1,
                  value |-> [username |-> "teacher", password |-> "password", id |-> 1]]>>
    /\ userIdCounter = 2
    /\ content = <<>>
    /\ contentIdCounter = 1
    /\ topicSuggestions = <<>>
    /\ topicSuggestionIdCounter = 1
    /\ apiKeySet \in BOOLEAN
    /\ pending = <<>>
    /\ createdIds = <<>>
    /\ deletedIds = {}
    /\ completed = <<>>
    /\ last = Response("none", 0, EmptyObject, 0, <<>>)

ContentRoutes(posts, queries, patches) ==
    \/ \E body \in posts : PostContent(body)
    \/ \E query \in queries : ListContent(query)
    \/ \E id \in Ids : GetContentById(id)
    \/ \E id \in Ids, body \in patches : PatchContent(id, body)
    \/ \E id \in Ids : DeleteContent(id)

SuggestionRoutes(posts, queries, bodies, outcomes) ==
    \/ \E body \in posts : PostSuggestion(body)
    \/ \E query \in queries : ListSuggestions(query)
    \/ \E id \in Ids : DeleteSuggestion(id)
    \/ \E body \in bodies : AiSuggestionsStart(body)
    \/ \E i \in 1..Len(pending), outcome \in outcomes :
          AiSuggestionsFinish(i, outcome)

NextContent ==
    ContentRoutes(PostContentBodies, ListContentQueries, PatchContentBodies)

NextSuggestions ==
    SuggestionRoutes(PostSuggestionBodies, SuggestionQueries, AiSuggestionBodies,
                     ModelOutcomes)

\* every route of registerRoutes, each on a few of its requests
Next ==
    \/ ContentRoutes({Spread(BasePayload, "id" :> 7), Omit(BasePayload, "title")},
                     {EmptyObject},
                     {("title" :> "Geometry") @@ ("id" :> 7), "type" :> "essay"})
    \/ SuggestionRoutes({Spread(BaseSuggestion, "id" :> 7),
                         Omit(BaseSuggestion, "grade")},
                        {[subject |-> "Mathematics", grade |-> "9th Grade",
                          limit |-> 1],
                         [subject |-> "Mathematics", grade |-> "9th Grade",
                          limit |-> 0 - 1],
                         [subject |-> "Mathematics", grade |-> "9th Grade"]},
                        {[subject |-> "Mathematics", grade |-> "9th Grade"],
                         [grade |-> "9th Grade"]},
                        {CallFails, Answers(<<Prose>>),
                         Answers(<<Fence, Space,
                                   JsonText(JsonArray(<<ItemEcho, ItemBare>>)),
                                   Space, Fence>>)})
    \/ \E body \in {[prompt |-> "Explain sets"], [subject |-> "Mathematics"]} :
          AiContentStart(body)
    \/ \E i \in 1..Len(pending), outcome \in {CallFails, Answers(<<Prose>>)} :
          AiContentFinish(i, outcome)

\* the two AI routes, among requests to the routes of both collections
NextAi ==
    \/ \E body \in AiSuggestionBodies : AiSuggestionsStart(body)
    \/ \E i \in 1..Len(pending),
          outcome \in {CallFails,
                       Answers(<<Prose, JsonText(JsonArray(<<ItemEcho, ItemBare>>))>>),
                       Answers(<<Fence, Space,
                                 JsonText(JsonArray(<<ItemEcho, ItemBare>>)),
                                 Space, Fence>>),
                       Answers(<<JsonText(JsonArray(<<ItemUntitled>>))>>)} :
          AiSuggestionsFinish(i, outcome)
    \/ \E body \in AiContentBodies : AiContentStart(body)
    \/ \E i \in 1..Len(pending), outcome \in ContentOutcomes :
          AiContentFinish(i, outcome)
    \/ PostContent(FullPayload)
    \/ ListContent(EmptyObject)
    \/ PostSuggestion(BaseSuggestion)
    \/ ListSuggestions([subject |-> "Mathematics", grade |-> "9th Grade"])

\* every route
Spec == Init /\ [][Next]_vars

\* the content routes alone
SpecContent == Init /\ [][NextContent]_vars

\* the topic suggestion routes alone
SpecSuggestions == Init /\ [][NextSuggestions]_vars

\* the AI routes
SpecAi == Init /\ [][NextAi]_vars

\* clients that create records at the same time, in both collections
NextCreates ==
    \/ \E body \in {BasePayload, FullPayload, Omit(BasePayload, "title")} :
          PostContentBegin(body)
    \/ \E body \in {BaseSuggestion, Omit(BaseSuggestion, "grade")} :
          PostSuggestionBegin(body)
    \/ \E i \in 1..Len(pending) : CreateEnd(i)

\* the create routes, each request in two steps
SpecCreates == Init /\ [][NextCreates]_vars

\* a POST /api/ai/suggestions is waiting for the model
Waiting ==
    \E i \in 1..Len(pending) : pending[i].route = "POST /api/ai/suggestions"

\* requests that come while a POST /api/ai/suggestions waits for the model:
\* the handlers of the other routes run between its await and its resumption
NextWhileWaiting ==
    \/ \E body \in {[subject |-> "Mathematics", grade |-> "9th Grade", count |-> 1],
                     [subject |-> "Mathematics", grade |-> "9th Grade"],
                     [grade |-> "9th Grade"]} :
          AiSuggestionsStart(body)
    \/ \E i \in 1..Len(pending),
          outcome \in {CallFails,
                       Answers(<<JsonText(JsonArray(<<ItemBare, ItemEcho>>))>>)} :
          AiSuggestionsFinish(i, outcome)
    \/ /\ Waiting
       /\ \/ ContentRoutes({BasePayload}, {EmptyObject}, {"title" :> "Geometry"})
          \/ PostSuggestion(BaseSuggestion)
          \/ ListSuggestions([subject |-> "Mathematics", grade |-> "9th Grade"])
          \/ \E id \in Ids : DeleteSuggestion(id)

\* the other routes between the await and the resumption of the AI suggestions
\* route
SpecWhileWaiting == Init /\ [][NextWhileWaiting]_vars

NextGenerator ==
    \E input \in GeneratorInputs, outcome \in GeneratorOutcomes :
       Generate(input, outcome)

\* the suggestion generator alone, on every input and every answer of the model
SpecGenerator == Init /\ [][NextGenerator]_vars

-----------------------------------------------------------------------------
(* Properties of the content routes *)

Range(seq) == {seq[i] : i \in 1..Len(seq)}

IsPostContent(r) == r.op = "POST /api/content"
IsGetContent(r) == r.op = "GET /api/content/:id"
IsPatchContent(r) == r.op = "PATCH /api/content/:id"
IsDeleteContent(r) == r.op = "DELETE /api/content/:id"

ContentStoreUnchanged ==
    /\ content' = content
    /\ contentIdCounter' = contentIdCounter

\* a body C1 speaks of: a named field missing, or type or difficulty outside
\* its enumeration
LacksOrBadEnum(body) ==
    \/ \E k \in {"title", "subject", "grade", "difficulty", "htmlContent", "type"} :
          ~Has(body, k)
    \/ body.type \notin {"notes", "quiz", "assignment", "paper"}
    \/ body.difficulty \notin {"easy", "medium", "hard"}

\* C1: a POST /api/content whose body lacks title, subject, grade, difficulty,
\* htmlContent or type, or whose type or difficulty is outside its enumeration,
\* is answered 400 and leaves the content collection as it was.
C1_InvalidPostRejected ==
    [][(IsPostContent(last') /\ LacksOrBadEnum(last'.body))
         => (last'.status = 400 /\ ContentStoreUnchanged)]_vars

C1_Witness ==
    /\ IsPostContent(last)
    /\ Has(last.body, "difficulty") /\ last.body.difficulty = "extreme"
    /\ last.status = 400
    /\ Len(content) > 0

\* C2: the ids createContent returns are strictly increasing over the whole
\* history of creates, deleted records included.
C2_CreatedIdsIncrease ==
    \A i, j \in 1..Len(createdIds) : i < j => createdIds[i] < createdIds[j]

C2_Witness ==
    /\ Len(createdIds) >= 3
    /\ createdIds[1] \in deletedIds
    /\ IsPostContent(last) /\ last.status = 201

\* C3: a DELETE of an id in the collection is answered 204 and removes it; a
\* DELETE of an id that an earlier DELETE answered 204 for is answered 404 and
\* leaves the collection as it was.
C3_SecondDeleteNotFound ==
    [][IsDeleteContent(last')
         => /\ MapHas(content, last'.id)
                 => (last'.status = 204 /\ ~MapHas(content', last'.id))
            /\ last'.id \in deletedIds
                 => (last'.status = 404 /\ ContentStoreUnchanged)]_vars

C3_Witness ==
    /\ IsDeleteContent(last)
    /\ last.id \in deletedIds
    /\ last.status = 404
    /\ Len(content) > 0

\* a partial body whose type and difficulty, when present, are enumerated
ValidPartial(body) ==
    /\ Has(body, "type") => body.type \in {"notes", "quiz", "assignment", "paper"}
    /\ Has(body, "difficulty") => body.difficulty \in {"easy", "medium", "hard"}

\* C4: a PATCH /api/content/:id with a valid partial body and an id that is
\* not a key of the collection is answered 404 and leaves the ids, the
\* records and the id counter as they were.
C4_PatchMissingIdNotFound ==
    [][(IsPatchContent(last') /\ ValidPartial(last'.body)
          /\ ~MapHas(content, last'.id))
         => (last'.status = 404 /\ ContentStoreUnchanged)]_vars

C4_Witness ==
    /\ IsPatchContent(last)
    /\ Has(last.body, "title")
    /\ last.status = 404
    /\ Len(content) > 0

\* a GET /api/content/:id answered right after the POST that created the id
GetFollowsPost ==
    /\ IsPostContent(last) /\ last.status = 201
    /\ IsGetContent(last') /\ last'.id = last.out[1].id

C10_EnumsKept ==
    /\ [](\A i \in 1..Len(content) :
             /\ content[i].value.type \in {"notes", "quiz", "assignment", "paper"}
             /\ content[i].value.difficulty \in {"easy", "medium", "hard"})
    /\ [][(IsPatchContent(last') /\ ~ValidPartial(last'.body))
            => (last'.status = 400 /\ ContentStoreUnchanged)]_vars

C10_Witness ==
    /\ IsPatchContent(last)
    /\ Has(last.body, "type") /\ last.body.type = "essay"
    /\ MapHas(content, last.id)
    /\ last.status = 400

\* the other fields of a body are valid: with a long enough title it passes
\* insertContentSchema
ValidButForTitle(body) ==
    /\ Has(body, "title")
    /\ insertContentSchema(Spread(body, "title" :> "Algebra")).ok

\* C11: a POST /api/content whose title is shorter than 3 characters, every
\* other field being valid, is answered 400 and creates no record.
C11_ShortTitleRejected ==
    [][(IsPostContent(last') /\ ValidButForTitle(last'.body)
          /\ Len(last'.body.title) < 3)
         => (last'.status = 400 /\ ContentStoreUnchanged)]_vars

\* C12: a record created from a payload without isPublic is stored and
\* returned with isPublic equal to false.
C12_IsPublicDefaultsFalse ==
    (IsPostContent(last) /\ last.status = 201 /\ ~Has(last.body, "isPublic"))
      => /\ Has(last.out[1], "isPublic") /\ last.out[1].isPublic = FALSE
         /\ MapGet(content, last.out[1].id) = last.out[1]

IsListContent(r) == r.op = "GET /api/content"

\* the stored records of one author, in the order of the store
RecordsOf(n) ==
    SelectSeq(MapValues(content), LAMBDA c : c.createdById = n)

\* C13: GET /api/content?userId=N returns exactly the stored records whose
\* createdById is N, for every integer N, 0 included; only a request without
\* userId returns all records.
C13_ListFiltersEveryUserId ==
    IsListContent(last)
      => /\ last.status = 200
         /\ last.out = IF Has(last.body, "userId")
                       THEN RecordsOf(last.body.userId)
                       ELSE MapValues(content)

\* the fields of a PATCH body that the schema keeps
ValidatedFields(body) == (DOMAIN body) \cap ContentKeys

\* C14: a PATCH answered 200 stores and returns a record in which every field
\* of the validated body has the body's value and every other field, id
\* included, has the value it had; the other records, the order of the
\* collection and the id counter stay as they were.
C14_PatchMergesFields ==
    [][(IsPatchContent(last') /\ last'.status = 200)
         => /\ MapHas(content, last'.id)
            /\ LET old == MapGet(content, last'.id)
                   new == MapGet(content', last'.id)
               IN /\ last'.out = <<new>>
                  /\ DOMAIN new = (DOMAIN old) \cup ValidatedFields(last'.body)
                  /\ \A k \in ValidatedFields(last'.body) : new[k] = last'.body[k]
                  /\ \A k \in (DOMAIN old) \ ValidatedFields(last'.body) :
                        new[k] = old[k]
                  /\ new.id = last'.id /\ old.id = last'.id
            /\ Len(content') = Len(content)
            /\ \A i \in 1..Len(content) : content'[i].key = content[i].key
            /\ \A id \in MapKeys(content) \ {last'.id} :
                  MapGet(content', id) = MapGet(content, id)
            /\ contentIdCounter' = contentIdCounter]_vars

C14_Witness ==
    /\ IsPatchContent(last)
    /\ last.status = 200
    /\ Has(last.body, "title") /\ Has(last.body, "id")
    /\ last.body.id # last.id
    /\ Has(last.out[1], "tags")
    /\ last.out[1].title = "Geometry"
    /\ Len(content) >= 2

\* C15: once a DELETE of an id was answered 204, a GET of that id is answered
\* 404 and no list holds a record with that id, whatever creates, updates and
\* deletes came in between.
C15_DeletedStaysGone ==
    /\ \A id \in deletedIds : ~MapHas(content, id)
    /\ (IsGetContent(last) /\ last.id \in deletedIds) => last.status = 404
    /\ IsListContent(last)
         => \A i \in 1..Len(last.out) : last.out[i].id \notin deletedIds

C15_Witness ==
    /\ IsGetContent(last)
    /\ last.id \in deletedIds
    /\ last.status = 404
    /\ \E i \in 1..Len(createdIds) : createdIds[i] > last.id
    /\ Len(content) > 0

-----------------------------------------------------------------------------
(* Properties of the topic suggestion routes *)

IsListSuggestions(r) == r.op = "GET /api/suggestions"
IsAiSuggestions(r) == r.op = "POST /api/ai/suggestions"

SuggestionStoreUnchanged ==
    /\ topicSuggestions' = topicSuggestions
    /\ topicSuggestionIdCounter' = topicSuggestionIdCounter

\* the records sent all have the subject and grade of the query
AllMatchQuery(r) ==
    \A i \in 1..Len(r.out) :
        r.out[i].subject = r.body.subject /\ r.out[i].grade = r.body.grade

\* C5 as stated: for every limit n given in the query, GET /api/suggestions
\* sends at most n records, each with the subject and grade of the query.
C5_AtMostLimitAnyLimit ==
    (IsListSuggestions(last) /\ Has(last.body, "limit"))
        => (Len(last.out) <= last.body.limit /\ AllMatchQuery(last))

\* C5 amended: for every limit n >= 0 given in the query, GET /api/suggestions
\* sends at most n records, each with the subject and grade of the query.
C5_AtMostLimit ==
    (IsListSuggestions(last) /\ Has(last.body, "limit") /\ last.body.limit >= 0)
        => (Len(last.out) <= last.body.limit /\ AllMatchQuery(last))

C5_Witness ==
    /\ IsListSuggestions(last)
    /\ Has(last.body, "limit") /\ last.body.limit = 1
    /\ Len(last.out) = 1
    /\ \E i, j \in 1..Len(topicSuggestions) :
          /\ i # j
          /\ topicSuggestions[i].value.subject = last.body.subject
          /\ topicSuggestions[i].value.grade = last.body.grade
          /\ topicSuggestions[j].value.subject = last.body.subject
          /\ topicSuggestions[j].value.grade = last.body.grade
    /\ \E k \in 1..Len(topicSuggestions) :
          /\ topicSuggestions[k].value.subject = last.body.subject
          /\ topicSuggestions[k].value.grade # last.body.grade

\* the step answers a POST /api/ai/suggestions that was waiting for the model
AiAnswered == IsAiSuggestions(last') /\ Len(pending') < Len(pending)

\* the model answered a text that is no JSON text, or the text of a JSON value
\* that is no array
NotAJsonArray(outcome) ==
    /\ outcome.kind = "text"
    /\ LET parsed == JsonParse(Trim(RemoveFences(outcome.text)))
       IN ~parsed.ok \/ parsed.value.kind # "array"

\* C7: when the model's answer is not parseable as a JSON array, the response
\* of POST /api/ai/suggestions is 500 and the topic-suggestion collection and
\* its id counter are as before the request.
C7_UnparseableAnswerIs500 ==
    [][(AiAnswered /\ NotAJsonArray(last'.outcome))
         => (last'.status = 500 /\ last'.out = <<>> /\ SuggestionStoreUnchanged)]_vars

C7_Witness ==
    /\ IsAiSuggestions(last)
    /\ NotAJsonArray(last.outcome)
    /\ Len(last.outcome.text) > 1
    /\ last.status = 500
    /\ Len(topicSuggestions) > 0

\* a POST /api/ai/suggestions answered 200 for a count of 3, given or defaulted
AiSuccessOfThree(r) ==
    /\ IsAiSuggestions(r)
    /\ r.status = 200
    /\ Has(r.body, "count") => r.body.count = 3

\* the records the step added to the topic-suggestion collection
AddedSuggestions ==
    SubSeq(MapValues(topicSuggestions'), Len(topicSuggestions) + 1,
           Len(topicSuggestions'))

ForcedSubjectAndGrade(r, records) ==
    \A i \in 1..Len(records) :
        records[i].subject = r.body.subject /\ records[i].grade = r.body.grade

\* the number of items of the JSON array the model answered
AnswerLength(outcome) ==
    Len(JsonParse(Trim(RemoveFences(outcome.text))).value.items)

Min(a, b) == IF a < b THEN a ELSE b

\* C8 as stated: a successful POST /api/ai/suggestions with count 3 adds
\* exactly 3 records, each with the subject and grade of the request.
C8_ExactlyThreeAdded ==
    [][(AiAnswered /\ AiSuccessOfThree(last'))
         => (/\ Len(topicSuggestions') = Len(topicSuggestions) + 3
             /\ ForcedSubjectAndGrade(last', AddedSuggestions))]_vars

\* C8 amended: a successful POST /api/ai/suggestions with count 3 adds one
\* record for each of the first 3 items of the model's answer (fewer than 3
\* when the answer has fewer), each with the subject and grade of the request.
C8_UpToThreeAdded ==
    [][(AiAnswered /\ AiSuccessOfThree(last'))
         => (/\ Len(topicSuggestions')
                  = Len(topicSuggestions) + Min(3, AnswerLength(last'.outcome))
             /\ SubSeq(topicSuggestions', 1, Len(topicSuggestions)) = topicSuggestions
             /\ AddedSuggestions = last'.out
             /\ ForcedSubjectAndGrade(last', AddedSuggestions))]_vars

C8_Witness ==
    /\ AiSuccessOfThree(last)
    /\ AnswerLength(last.outcome) = 4
    /\ Len(last.out) = 3
    /\ Len(topicSuggestions) = 3
    /\ topicSuggestions[2].value.category = "Calculus"
    /\ topicSuggestions[2].value.subject = "Mathematics"

-----------------------------------------------------------------------------
(* Properties of both collections *)

\* each record is stored under its own id, and no id is there twice
KeyedById(m) ==
    /\ \A i \in 1..Len(m) : m[i].value.id = m[i].key
    /\ \A i, j \in 1..Len(m) : i # j => m[i].key # m[j].key

\* C9: each record of the content and of the topic-suggestion collection is
\* stored under a key equal to its id, no two records of a collection share an
\* id, and every id is one the store's counter gave out: an id in the body of a
\* POST or PATCH never becomes or changes a stored id.
C9_IdsAssignedByStore ==
    /\ KeyedById(content)
    /\ KeyedById(topicSuggestions)
    /\ \A i \in 1..Len(content) : content[i].value.id \in Range(createdIds)
    /\ \A i \in 1..Len(topicSuggestions) :
          topicSuggestions[i].value.id \in 1..(topicSuggestionIdCounter - 1)
    /\ (last.op \in {"POST /api/content", "PATCH /api/content/:id",
                     "POST /api/suggestions"}
          /\ Has(last.body, "id") /\ last.out # <<>>)
         => last.out[1].id # last.body.id

C9_Witness ==
    /\ IsPatchContent(last)
    /\ last.status = 200
    /\ Has(last.body, "id")
    /\ Len(content) > 1
    /\ Len(topicSuggestions) > 0

-----------------------------------------------------------------------------
(* Properties of the AI routes *)

IsAiContent(r) == r.op = "POST /api/ai/content"
IsAi(r) == IsAiSuggestions(r) \/ IsAiContent(r)

\* an AI request that passes the check of its body: a prompt, or a subject
\* and a grade
AsksTheModel(r) ==
    \/ IsAiContent(r) /\ Truthy(r.body, "prompt")
    \/ IsAiSuggestions(r) /\ Truthy(r.body, "subject") /\ Truthy(r.body, "grade")

\* C16: without the credential, a POST /api/ai/content with a prompt and a
\* POST /api/ai/suggestions with subject and grade are answered 500 and change
\* nothing: both collections, their counters and the waiting requests are as
\* before, so every later request meets the state it would have met without
\* the AI request.
C16_MissingKeyIs500AndConfined ==
    [][(~apiKeySet /\ IsAi(last') /\ AsksTheModel(last'))
         => /\ last'.status = 500
            /\ last'.out = <<>>
            /\ UNCHANGED <<storeVars, pending, apiKeySet, createdIds, deletedIds, completed>>]_vars

C16_Witness ==
    /\ ~apiKeySet
    /\ IsAiContent(last) /\ AsksTheModel(last)
    /\ last.status = 500
    /\ last.error = "AI API key is not configured"
    /\ Len(content) > 0 /\ Len(topicSuggestions) > 0

\* the call of the request ended without a usable answer
CallFailed(r) ==
    \/ r.outcome.kind = "error"
    \/ IsAiSuggestions(r) /\ NotAJsonArray(r.outcome)

\* C17: a request to an AI route issues at most one call to the model: a
\* waiting request has issued one, and the step in which its call settles
\* answers it, with 500 when the call failed or its answer did not parse.
C17_AtMostOneCall ==
    /\ [](\A i \in 1..Len(pending) : pending[i].calls = 1)
    /\ [](IsAi(last) => last.calls <= 1)
    /\ [][(pending' # pending /\ Len(pending') <= Len(pending))
            => /\ Len(pending') < Len(pending)
               /\ IsAi(last') /\ last'.calls = 1
               /\ CallFailed(last') => last'.status = 500]_vars

C17_Witness ==
    /\ IsAiContent(last)
    /\ last.outcome.kind = "error"
    /\ last.calls = 1
    /\ last.status = 500
    /\ pending # <<>>

\* the 500 answer of POST /api/ai/suggestions, in which nothing varies
FixedAnswer(r) ==
    /\ r.status = 500
    /\ r.error = "Failed to generate AI suggestions with Gemini"
    /\ r.out = <<>>

\* C19: the response to a POST /api/ai/suggestions whose answer does not parse
\* is the same whatever the raw text, and the error the generator raised
\* carries the raw text.
C19_SameAnswerErrorCarriesText ==
    [][(AiAnswered /\ NotAJsonArray(last'.outcome))
         => /\ FixedAnswer(last')
            /\ last'.outcome.text \in Range(last'.thrown.carries)]_vars

\* C19 amended: the response is the same whatever the raw text; the raw text
\* is written to the log, and the error the generator raised has a fixed
\* message and carries nothing else.
C19_SameAnswerTextOnlyLogged ==
    [][(AiAnswered /\ NotAJsonArray(last'.outcome))
         => /\ FixedAnswer(last')
            /\ last'.logged = last'.outcome.text
            /\ last'.thrown.message = "Failed to parse AI-generated suggestions"
            /\ last'.thrown.carries = <<>>]_vars

C19_Witness ==
    /\ IsAiSuggestions(last)
    /\ NotAJsonArray(last.outcome)
    /\ last.outcome.text = <<Prose, JsonText(JsonArray(<<ItemEcho, ItemBare>>))>>
    /\ last.logged = last.outcome.text
    /\ FixedAnswer(last)

-----------------------------------------------------------------------------
(* Properties of generateTopicSuggestions *)

IsGenerate(r) == r.op = "generateTopicSuggestions"

\* the model answered the text of a JSON array of objects
AnswersItems(outcome) ==
    /\ outcome.kind = "text"
    /\ LET parsed == JsonParse(Trim(RemoveFences(outcome.text)))
       IN /\ parsed.ok
          /\ parsed.value.kind = "array"
          /\ \A i \in 1..Len(parsed.value.items) :
                parsed.value.items[i].kind = "object"

AnswerItems(outcome) == JsonParse(Trim(RemoveFences(outcome.text))).value.items

\* the suggestion is the item with the subject and the grade of the request,
\* the subject as category when the item has none, and ["medium"] as
\* difficultyLevels when the item has none
ShapedFrom(suggestion, item, input) ==
    /\ \A k \in {"title", "description"} :
          Has(item.fields, k) => suggestion[k] = item.fields[k]
    /\ suggestion.subject = input.subject
    /\ suggestion.grade = input.grade
    /\ suggestion.category =
          IF Has(item.fields, "category") /\ item.fields.category # ""
          THEN item.fields.category ELSE input.subject
    /\ suggestion.difficultyLevels =
          IF Has(item.fields, "difficultyLevels")
          THEN item.fields.difficultyLevels ELSE <<"medium">>

FirstItemsShaped(r) ==
    /\ r.ok
    /\ Len(r.out) = Min(r.body.count, AnswerLength(r.outcome))
    /\ Len(r.out) <= r.body.count
    /\ \A i \in 1..Len(r.out) :
          ShapedFrom(r.out[i], AnswerItems(r.outcome)[i], r.body)

\* C18: for every parsed answer and every requested count n,
\* generateTopicSuggestions returns the first min(n, length) items in order,
\* each shaped from its item, and never more than n items.
C18_FirstItemsAnyCount ==
    (IsGenerate(last) /\ AnswersItems(last.outcome)) => FirstItemsShaped(last)

\* C18 amended: the same for every requested count n >= 0.
C18_FirstItems ==
    (IsGenerate(last) /\ AnswersItems(last.outcome) /\ last.body.count >= 0)
      => FirstItemsShaped(last)

C18_Witness ==
    /\ IsGenerate(last)
    /\ AnswersItems(last.outcome)
    /\ last.body.count = 2
    /\ AnswerLength(last.outcome) = 3
    /\ Len(last.out) = 2
    /\ last.out[1].category = last.body.subject
    /\ last.out[2].difficultyLevels = <<"medium">>

-----------------------------------------------------------------------------
(* Properties of concurrent creates *)

CreateRoutes == {"POST /api/content", "POST /api/suggestions"}

\* the collection a create route writes to
StoreOf(route) == IF route = "POST /api/content" THEN content ELSE topicSuggestions

\* the records the store returned to the creates of a route, answered or not,
\* in a sequence: the answered ones, then the waiting ones
ReturnedTo(route) ==
    LET done == SelectSeq(completed, LAMBDA c : c.route = route)
        waiting == SelectSeq(pending, LAMBDA e : e.route = route)
    IN [i \in 1..Len(done) |-> done[i].ret]
       \o [i \in 1..Len(waiting) |-> waiting[i].ret]

\* C20: in every interleaving of create requests on one collection, no two
\* creates get the same id, every record a create got is in the collection as
\* it was returned and the collection holds nothing else, and the id of a
\* create is greater than the id of every create that was answered before
\* its handler started.
C20_ConcurrentCreates ==
    /\ \A route \in CreateRoutes :
          LET returned == ReturnedTo(route)
          IN /\ \A i, j \in 1..Len(returned) :
                   i # j => returned[i].id # returned[j].id
             /\ \A i \in 1..Len(returned) :
                   /\ MapHas(StoreOf(route), returned[i].id)
                   /\ MapGet(StoreOf(route), returned[i].id) = returned[i]
             /\ Len(StoreOf(route)) = Len(returned)
    /\ \A i \in 1..Len(pending) :
          \A id \in pending[i].after : pending[i].ret.id > id

C20_Witness ==
    /\ Len(pending) >= 2
    /\ pending[1].route = pending[2].route
    /\ pending[2].after # {}
    /\ \E i \in 1..Len(completed) :
          /\ completed[i].route = pending[1].route
          /\ completed[i].ret.id > pending[1].ret.id

-----------------------------------------------------------------------------
(* Properties of the batch of POST /api/ai/suggestions *)

\* what generateTopicSuggestions returned to the request of a response
GeneratedFor(r) ==
    generateTopicSuggestions([subject |-> r.body.subject, grade |-> r.body.grade,
                              count |-> IF Has(r.body, "count") THEN r.body.count
                                        ELSE 3],
                             r.outcome).ret

\* C22: a POST /api/ai/suggestions answered 200 adds one record for each
\* generated suggestion, in the order of generation and each under an id no
\* record had, and sends exactly the added records; the records that were
\* there stay, also those equal to a generated suggestion.
C22_BatchPersistedAndReturned ==
    [][(AiAnswered /\ last'.status = 200)
         => /\ Len(last'.out) = Len(GeneratedFor(last'))
            /\ AddedSuggestions = last'.out
            /\ SubSeq(topicSuggestions', 1, Len(topicSuggestions)) = topicSuggestions
            /\ \A i \in 1..Len(last'.out) :
                  /\ Omit(last'.out[i], "id") = GeneratedFor(last')[i]
                  /\ last'.out[i].id >= topicSuggestionIdCounter
                  /\ ~MapHas(topicSuggestions, last'.out[i].id)
                  /\ MapGet(topicSuggestions', last'.out[i].id) = last'.out[i]
            /\ \A i, j \in 1..Len(last'.out) :
                  i < j => last'.out[i].id < last'.out[j].id]_vars

\* the same request was answered before: its records are there twice
C22_Witness ==
    /\ IsAiSuggestions(last)
    /\ last.status = 200
    /\ Len(last.out) = 1
    /\ \E i \in 1..Len(topicSuggestions) :
          /\ topicSuggestions[i].key < last.out[1].id
          /\ Omit(topicSuggestions[i].value, "id") = Omit(last.out[1], "id")

\* C30: the records of one POST /api/ai/suggestions get consecutive ids in
\* the order of the generated array, starting at the counter, which moves
\* past the batch; every key of the collection is below the counter, so no
\* record of another request has an id within the batch.
C30_BatchIdsConsecutive ==
    /\ [](\A i \in 1..Len(topicSuggestions) :
             /\ topicSuggestions[i].key < topicSuggestionIdCounter
             /\ topicSuggestions[i].value.id = topicSuggestions[i].key)
    /\ [][(AiAnswered /\ last'.status = 200)
            => /\ \A i \in 1..Len(last'.out) :
                     last'.out[i].id = topicSuggestionIdCounter + i - 1
               /\ topicSuggestionIdCounter'
                     = topicSuggestionIdCounter + Len(last'.out)
               /\ MapKeys(topicSuggestions')
                     = MapKeys(topicSuggestions)
                       \cup {last'.out[i].id : i \in 1..Len(last'.out)}]_vars

C30_Witness ==
    /\ IsAiSuggestions(last)
    /\ last.status = 200
    /\ Len(last.out) = 2
    /\ last.out[1].id = 2 /\ last.out[2].id = 3
    /\ MapHas(topicSuggestions, 1)
    /\ MapGet(topicSuggestions, 1).title = BaseSuggestion.title

-----------------------------------------------------------------------------
(* Properties of the checks of the AI routes *)

MissingOrEmpty(obj, k) == ~Has(obj, k) \/ obj[k] = ""

\* the body lacks what its route asks for: subject and grade, or the prompt
LacksItsInput(route, body) ==
    \/ /\ route = "POST /api/ai/suggestions"
       /\ MissingOrEmpty(body, "subject") \/ MissingOrEmpty(body, "grade")
    \/ /\ route = "POST /api/ai/content"
       /\ MissingOrEmpty(body, "prompt")

\* C24: a POST /api/ai/suggestions without subject or grade and a POST
\* /api/ai/content without prompt are answered 400, with the credential and
\* without it, before any call to the model: no such request ever waits for
\* the model, and its step changes no collection.
C24_BadBodyIs400BeforeCall ==
    /\ [](\A i \in 1..Len(pending) :
             ~LacksItsInput(pending[i].route, pending[i].body))
    /\ []((IsAi(last) /\ LacksItsInput(last.op, last.body))
             => (last.status = 400 /\ last.calls = 0 /\ last.outcome = NoCall))
    /\ [][(IsAi(last') /\ LacksItsInput(last'.op, last'.body) /\ last' # last)
            => UNCHANGED <<storeVars, pending>>]_vars

C24_Witness ==
    /\ ~apiKeySet
    /\ IsAiContent(last)
    /\ ~Has(last.body, "prompt")
    /\ last.status = 400
    /\ last.error = "Prompt is required"
    /\ Len(topicSuggestions) > 0

\* C26: every record of the topic-suggestion collection has a title, a
\* description, a subject and a grade, whichever route stored it.
C26_RequiredFieldsPresent ==
    \A i \in 1..Len(topicSuggestions) :
        TopicRequired \subseteq DOMAIN topicSuggestions[i].value

-----------------------------------------------------------------------------
(* Properties of the content id counter and of the order of PATCH *)

\* C28: the content id counter is 1 plus the number of creates answered 201
\* and is above every key of the collection, the n-th such create returns id
\* n, and the counter moves only in a create answered 201: not in a request
\* answered 400, 404 or 500, and not in a PATCH or a DELETE.
C28_CounterCountsCreates ==
    /\ [](/\ contentIdCounter = 1 + Len(createdIds)
          /\ \A n \in 1..Len(createdIds) : createdIds[n] = n
          /\ \A id \in MapKeys(content) : id < contentIdCounter)
    /\ [][(contentIdCounter' # contentIdCounter)
            => (/\ IsPostContent(last') /\ last'.status = 201
                /\ last'.out[1].id = contentIdCounter
                /\ contentIdCounter' = contentIdCounter + 1)]_vars
    /\ [][(\/ last'.status \in {400, 404, 500}
           \/ IsPatchContent(last')
           \/ IsDeleteContent(last'))
            => (contentIdCounter' = contentIdCounter)]_vars

C28_Witness ==
    /\ IsPostContent(last) /\ last.status = 201
    /\ last.out[1].id = 3
    /\ contentIdCounter = 4
    /\ Len(content) = 1
    /\ Cardinality(deletedIds) = 2

\* C29: a PATCH /api/content/:id validates the body before it looks the id
\* up: with an invalid body it is answered 400, the id being there or not,
\* and it is answered 404 only with a valid body and an id that is not there;
\* in both cases the collection and the counter stay as they were.
C29_PatchValidatesFirst ==
    [][IsPatchContent(last')
         => /\ (~ValidPartial(last'.body))
                 => (last'.status = 400 /\ ContentStoreUnchanged)
            /\ (last'.status = 404)
                 => (/\ ValidPartial(last'.body)
                     /\ ~MapHas(content, last'.id)
                     /\ ContentStoreUnchanged)]_vars

C29_Witness ==
    /\ IsPatchContent(last)
    /\ ~ValidPartial(last.body)
    /\ ~MapHas(content, last.id)
    /\ last.id \in deletedIds
    /\ last.status = 400
    /\ Len(content) > 0

-----------------------------------------------------------------------------
(* Properties of all the routes together *)

Statuses == {200, 201, 204, 400, 404, 500}

\* a request that is waiting for the model was not answered yet and is answered
\* by the step that takes it from pending
Suspends == Len(pending') = Len(pending) + 1 /\ last' = last
Resumes == Len(pending') = Len(pending) - 1 /\ IsAi(last') /\ last'.calls = 1
AnswersAtOnce == pending' = pending /\ last'.op # "none"

\* C23: every request to every route ends with one response, and its status is
\* 200, 201, 204, 400, 404 or 500: a step either answers a request as it comes,
\* or suspends one without a response, or answers one that was suspended, and
\* a suspended request can be answered whatever the model settles with
C23_OneResponseKnownStatus ==
    /\ [](/\ (last.op # "none") => (last.status \in Statuses)
          /\ \A i \in 1..Len(pending) :
                \/ ENABLED AiSuggestionsFinish(i, CallFails)
                \/ ENABLED AiContentFinish(i, CallFails))
    /\ [][Suspends \/ Resumes \/ AnswersAtOnce]_vars

\* the model call of a POST /api/ai/content threw, after requests to the other
\* routes, and the request was answered 500
C23_Witness ==
    /\ IsAiContent(last) /\ last.status = 500 /\ last.calls = 1
    /\ last.outcome = CallFails
    /\ pending = <<>>
    /\ Len(content) > 0 /\ Len(topicSuggestions) > 0
    /\ deletedIds # {}

\* the routes that write to the content collection, and those that write to
\* the suggestion collection
WritesContent(r) == IsPostContent(r) \/ IsPatchContent(r) \/ IsDeleteContent(r)
WritesSuggestions(r) ==
    r.op \in {"POST /api/suggestions", "DELETE /api/suggestions/:id",
              "POST /api/ai/suggestions"}

\* C27: the user collection holds the one fixture user whatever the requests,
\* a step that changes the content collection or its counter is a request to
\* a content route and leaves the suggestion collection and its counter as
\* they were, and the same the other way round
C27_CollectionsIndependent ==
    /\ [](/\ users = <<[key |-> 1,
                        value |-> [username |-> "teacher", password |-> "password",
                                   id |-> 1]]>>
          /\ userIdCounter = 2)
    /\ [][(~ContentStoreUnchanged)
            => (WritesContent(last') /\ SuggestionStoreUnchanged)]_vars
    /\ [][(~SuggestionStoreUnchanged)
            => (WritesSuggestions(last') /\ ContentStoreUnchanged)]_vars

\* a suggestion was deleted under an id that the content collection holds too
C27_Witness ==
    /\ last.op = "DELETE /api/suggestions/:id" /\ last.status = 204
    /\ MapHas(content, last.id)
    /\ ~MapHas(topicSuggestions, last.id)
    /\ Len(topicSuggestions) > 0

-----------------------------------------------------------------------------
(* Properties of the order of the records *)

\* the size of a collection that holds more records than the default limit
ManyRecords == 12

\* the keys of a Map in the order of its entries
KeySeq(m) == [i \in 1..Len(m) |-> m[i].key]

Ascending(seq) == \A i, j \in 1..Len(seq) : (i < j) => (seq[i] < seq[j])

\* the records of the suggestion collection that match a query, in the order
\* of the collection
MatchesOf(m, query) ==
    SelectSeq(MapValues(m),
              LAMBDA s : s.subject = query.subject /\ s.grade = query.grade)

\* the limit of a query, 10 when it has none
LimitOf(query) == IF Has(query, "limit") THEN query.limit ELSE 10

\* a collection of ManyRecords suggestions of one subject and grade
ManySuggestions ==
    createTopicSuggestions(<<>>, 1, [i \in 1..ManyRecords |-> BaseSuggestion])
        .topicSuggestions

\* the content collection is in the order its records were created in, which
\* is the ascending order of the ids, and getAllContent returns it so
ContentInInsertionOrder ==
    /\ KeySeq(content) = SelectSeq(createdIds, LAMBDA id : MapHas(content, id))
    /\ Ascending(KeySeq(content))
    /\ getAllContent(content) = [i \in 1..Len(content) |-> content[i].value]
    /\ (IsListContent(last) /\ ~Has(last.body, "userId"))
          => (last.out = getAllContent(content))

\* the suggestions sent are the first Min(limit, matches) matches
FirstMatchesSent ==
    LET matches == MatchesOf(topicSuggestions, last.body)
    IN last.out = SubSeq(matches, 1, Min(LimitOf(last.body), Len(matches)))

\* C25 as stated: the content collection is in insertion order, an update
\* keeps the place of its record, and GET /api/suggestions sends the first
\* min(limit, matches) matches for every limit
C25_InsertionOrderAnyLimit ==
    /\ ContentInInsertionOrder
    /\ (IsListSuggestions(last) /\ last.status = 200) => FirstMatchesSent

\* C25 amended: the content collection is in insertion order, which is the
\* ascending order of the ids, and getAllContent returns it so; an update
\* keeps the place of its record; getTopicSuggestions returns the first
\* min(limit, matches) matches in that order for every limit >= 0, and the
\* first 10 of more than 10 matches when no limit is given
C25_InsertionOrder ==
    /\ [](/\ ContentInInsertionOrder
          /\ (IsListSuggestions(last) /\ last.status = 200
                 /\ LimitOf(last.body) >= 0) => FirstMatchesSent
          /\ Ascending(KeySeq(topicSuggestions))
          /\ getTopicSuggestions(ManySuggestions, "Mathematics", "9th Grade",
                                 DefaultLimit)
                = SubSeq(MapValues(ManySuggestions), 1, 10))
    /\ [][(IsPatchContent(last') /\ last'.status = 200)
            => (KeySeq(content') = KeySeq(content))]_vars

\* the first of two records was updated after a record created before it was
\* deleted, and the suggestion collection holds two records
C25_Witness ==
    /\ IsPatchContent(last) /\ last.status = 200
    /\ Len(content) = 2 /\ content[1].key = last.id
    /\ content[1].value.title = "Geometry"
    /\ deletedIds # {}

-----------------------------------------------------------------------------
(* Properties of the requests that come while the model is awaited *)

====
